---- MODULE Spec2Model ----
(***************************************************************************)
(* Model of src/lambda/jira_issue/index.py: the Lambda handler that files  *)
(* one Jira issue per CloudWatch alarm record.                             *)
(*                                                                         *)
(* Representation.                                                         *)
(*  - A configuration string (an environment value, a secret's text, a     *)
(*    setting's effective value) is a sequence of tokens: the punctuation  *)
(*    characters "{", "}", ":", "," and " " are tokens of their own, a     *)
(*    run of other characters is one token.  The empty string is <<>>.     *)
(*    Python's None is None, a present value v is Some(v).                 *)
(*  - A JSON value of an event is a tagged record: JNull, JStr(s),         *)
(*    JNum(n), JList(l), JDict(d) with d a function from key strings.      *)
(*  - A call that can raise returns a record with ok = FALSE and the       *)
(*    exception's class in err; the caches it filled before raising stay.  *)
(***************************************************************************)
EXTENDS Integers, Sequences, FiniteSets, TLC

VARIABLES
  env,      \* os.environ of the process: setting name -> None | Some(string)
  store,    \* the secret store: [up: is get_secret_value answering, ver: content version]
  mem,      \* the process-lifetime lru_caches and the count of get_secret_value calls
  res,      \* the last direct _get_env call: its arguments and what it did
  nres,     \* number of direct _get_env calls made so far
  h,        \* the handler invocation in progress (or the last one finished)
  tracker,  \* the issues the tracker has created, in order: their fields
  ninv,     \* number of handler invocations started so far
  arg,      \* input of a function checked on its own
  out       \* its result

vars == <<env, store, mem, res, nres, h, tracker, ninv, arg, out>>

--------------------------------------------------------------------------
(* Bounds *)

MaxResolves == 2

--------------------------------------------------------------------------
(* Option values and string helpers *)

None == [some |-> FALSE]
Some(v) == [some |-> TRUE, v |-> v]

\* Python truthiness of an Optional[str]: None and "" are falsy.
Falsy(o) == ~o.some \/ o.v = <<>>

Put(f, k, v) == [y \in DOMAIN f \cup {k} |-> IF y = k THEN v ELSE f[y]]

\* str.startswith / str.endswith
StartsWith(s, p) == Len(p) <= Len(s) /\ SubSeq(s, 1, Len(p)) = p
EndsWith(s, p) == Len(p) <= Len(s) /\ SubSeq(s, Len(s) - Len(p) + 1, Len(s)) = p

\* str.find: the least index at which p occurs in s, 0 when it does not.
Find(s, p) ==
  LET at == {i \in 1..(Len(s) - Len(p) + 1) : SubSeq(s, i, i + Len(p) - 1) = p}
  IN IF at = {} THEN 0 ELSE CHOOSE i \in at : \A j \in at : i <= j

\* s[i:] (1-based first index kept)
From(s, i) == SubSeq(s, i, Len(s))

\* str.strip() for the blank token
RECURSIVE LStrip(_)
LStrip(s) == IF s # <<>> /\ Head(s) = " " THEN LStrip(Tail(s)) ELSE s
RECURSIVE RStrip(_)
RStrip(s) == IF s # <<>> /\ s[Len(s)] = " " THEN RStrip(SubSeq(s, 1, Len(s) - 1)) ELSE s
Strip(s) == RStrip(LStrip(s))

--------------------------------------------------------------------------
(* The secret store (boto3 secretsmanager), an external collaborator *)

RefPrefix == <<"{", "{", "resolve", ":", "secretsmanager", ":">>
RefSuffix == <<"}", "}">>
Marker == <<":", "SecretString">>

\* The texts held by the store.  Version 1 is the content after a rotation.
CfgText(ver) == IF ver = 0 THEN <<"{cfg-json-v0}">> ELSE <<"{cfg-json-v1}">>
RawText(ver) == IF ver = 0 THEN <<"tok123">> ELSE <<"tok456">>
LstText == <<"[1]">>

\* get_secret_value's response for a secret id: found = FALSE is the
\* service's ResourceNotFound error.
SecretResponse(id, ver) ==
  CASE id = <<"cfg">> -> [found |-> TRUE, SecretString |-> Some(CfgText(ver)), SecretBinary |-> None]
    [] id = <<"raw">> -> [found |-> TRUE, SecretString |-> Some(RawText(ver)), SecretBinary |-> None]
    [] id = <<"lst">> -> [found |-> TRUE, SecretString |-> Some(LstText), SecretBinary |-> None]
    [] id = <<"bin">> -> [found |-> TRUE, SecretString |-> None, SecretBinary |-> Some(<<"binval">>)]
    [] id = <<"nov">> -> [found |-> TRUE, SecretString |-> None, SecretBinary |-> None]
    [] OTHER -> [found |-> FALSE, SecretString |-> None, SecretBinary |-> None]

\* json.loads on the texts the store can hold: an object of the process's
\* settings, or not JSON at all, or JSON that is no object.  A JSON null
\* member is None.
CfgObject(ver) ==
  [k \in {<<"JIRA_HOST">>, <<"JIRA_EMAIL">>, <<"JIRA_API_TOKEN">>, <<"JIRA_PROJECT_KEY">>,
          <<"JIRA_ISSUE_TYPE">>, <<"apiKey">>, <<"nul">>} |->
     CASE k = <<"JIRA_HOST">> -> Some(<<"https://jira">>)
       [] k = <<"JIRA_EMAIL">> -> Some(<<"bot@example">>)
       [] k = <<"JIRA_API_TOKEN">> -> Some(RawText(ver))
       [] k = <<"JIRA_PROJECT_KEY">> -> Some(<<"OPS">>)
       [] k = <<"JIRA_ISSUE_TYPE">> -> Some(<<>>)
       [] k = <<"apiKey">> -> Some(RawText(ver))
       [] k = <<"nul">> -> None]

json_loads(text) ==
  CASE text = CfgText(0) -> [ok |-> TRUE, isdict |-> TRUE, d |-> CfgObject(0)]
    [] text = CfgText(1) -> [ok |-> TRUE, isdict |-> TRUE, d |-> CfgObject(1)]
    [] text = LstText -> [ok |-> TRUE, isdict |-> FALSE, d |-> <<>>]
    [] OTHER -> [ok |-> FALSE, isdict |-> FALSE, d |-> <<>>]

--------------------------------------------------------------------------
(* Config resolver *)

\* What a call that touches the caches gives back: the caches after it, and
\* either its value or the class and the text of the exception it raised.
Ret(m, v) == [m |-> m, ok |-> TRUE, val |-> v, err |-> "", text |-> ""]
RaiseText(m, e, text) == [m |-> m, ok |-> FALSE, val |-> None, err |-> e, text |-> text]
Raise(m, e) == RaiseText(m, e, e)

\* A call evaluated once, its result handed to the statements after it.
Bind(call, rest(_)) == CHOOSE y \in {rest(r) : r \in {call}} : TRUE

\* The same for a call whose exception nobody catches on the way: when it
\* raises, the statements after it do not run and the caller raises too.
Try(call, rest(_)) == CHOOSE y \in {IF r.ok THEN rest(r) ELSE r : r \in {call}} : TRUE

Called(m, id) ==
  [m EXCEPT !.calls = Put(m.calls, id, IF id \in DOMAIN m.calls THEN m.calls[id] + 1 ELSE 1)]

\* _fetch_secret_string without @lru_cache: get_secret_value is called on
\* every use, whatever was fetched before.
fetch_secret_string_uncached(m, secret_id) ==
  LET m1 == Called(m, secret_id)
      response == SecretResponse(secret_id, store.ver)
  IN IF ~store.up \/ ~response.found THEN Raise(m1, "ClientError")
     ELSE IF response.SecretString.some
       THEN Ret([m1 EXCEPT !.fetch = Put(m1.fetch, secret_id, response.SecretString.v)],
                response.SecretString)
     ELSE IF response.SecretBinary.some
       THEN Ret([m1 EXCEPT !.fetch = Put(m1.fetch, secret_id, response.SecretBinary.v)],
                response.SecretBinary)
     ELSE Raise(m1, "RuntimeError")

\* _fetch_secret_string under @lru_cache: a cached id is answered from the
\* cache; otherwise get_secret_value is called, and only a returned value is
\* cached (lru_cache keeps no exception).
fetch_secret_string(m, secret_id) ==
  IF secret_id \in DOMAIN m.fetch THEN Ret(m, Some(m.fetch[secret_id]))
  ELSE
    LET m1 == Called(m, secret_id)
        response == SecretResponse(secret_id, store.ver)
    IN IF ~store.up \/ ~response.found THEN Raise(m1, "ClientError")
       ELSE IF response.SecretString.some
         THEN Ret([m1 EXCEPT !.fetch = Put(m1.fetch, secret_id, response.SecretString.v)],
                  response.SecretString)
       ELSE IF response.SecretBinary.some
         THEN Ret([m1 EXCEPT !.fetch = Put(m1.fetch, secret_id, response.SecretBinary.v)],
                  response.SecretBinary)
       ELSE Raise(m1, "RuntimeError")

\* The body of _resolve_secret_reference, lines 88-125.
resolve_body(m, value) ==
  IF value = <<>> \/ ~StartsWith(value, RefPrefix) \/ ~EndsWith(value, RefSuffix)
  THEN Ret(m, Some(value))
  ELSE
    LET body == SubSeq(value, 3, Len(value) - 2)
        c1 == Find(body, <<":">>)
        rest1 == From(body, c1 + 1)
        c2 == IF c1 = 0 THEN 0 ELSE Find(rest1, <<":">>)
    IN IF c1 = 0 \/ c2 = 0 THEN Raise(m, "ValueError")
       ELSE
         LET service == SubSeq(rest1, 1, c2 - 1)
             remainder == From(rest1, c2 + 1)
             at == Find(remainder, Marker)
         IN IF service # <<"secretsmanager">> THEN Ret(m, Some(value))
            ELSE IF at = 0 THEN Raise(m, "ValueError")
            ELSE
              LET secret_id == Strip(SubSeq(remainder, 1, at - 1))
                  json_selector == From(remainder, at + Len(Marker))
                  sel == IF StartsWith(json_selector, <<":">>) THEN Tail(json_selector) ELSE <<>>
                  c3 == Find(sel, <<":">>)
                  key == IF c3 = 0 THEN sel ELSE SubSeq(sel, 1, c3 - 1)
              IN Try(fetch_secret_string(m, secret_id), LAMBDA f :
                   IF key = <<>> THEN f
                   ELSE
                     LET secret_json == json_loads(f.val.v)
                     IN IF ~secret_json.ok THEN Raise(f.m, "ValueError")
                        ELSE IF ~secret_json.isdict \/ key \notin DOMAIN secret_json.d
                          THEN Raise(f.m, "KeyError")
                        ELSE Ret(f.m, secret_json.d[key]))

\* _resolve_secret_reference under @lru_cache, keyed by the raw value.
resolve_secret_reference(m, value) ==
  IF value \in DOMAIN m.ref THEN Ret(m, m.ref[value])
  ELSE Try(resolve_body(m, value), LAMBDA r :
         [r EXCEPT !.m.ref = Put(r.m.ref, value, r.val)])

\* _get_secret_payload under @lru_cache(maxsize=1): the whole-payload
\* fallback secret named by JIRA_SECRET_NAME, parsed as a JSON object.
get_secret_payload(m) ==
  IF m.payload.some THEN Ret(m, m.payload.v)
  ELSE
    LET secret_name == env["JIRA_SECRET_NAME"]
    IN IF Falsy(secret_name) THEN Ret([m EXCEPT !.payload = Some(<<>>)], <<>>)
       ELSE
         Try(fetch_secret_string(m, secret_name.v), LAMBDA f :
           LET payload == json_loads(f.val.v)
           IN IF ~payload.ok \/ ~payload.isdict THEN Raise(f.m, "ValueError")
              ELSE Ret([f.m EXCEPT !.payload = Some(payload.d)], payload.d))

\* The last two steps of _get_env, lines 157-162.
apply_default(m, value, required, default) ==
  LET v == IF ~value.some THEN default ELSE value
  IN IF required /\ Falsy(v) THEN Raise(m, "EnvironmentError") ELSE Ret(m, v)

\* Lines 152-155: the whole-payload fallback for a value that is still empty.
payload_fallback(m, name, value, required, default) ==
  IF Falsy(value)
  THEN Try(get_secret_payload(m), LAMBDA p :
         apply_default(p.m, IF <<name>> \in DOMAIN p.val THEN p.val[<<name>>] ELSE value,
                       required, default))
  ELSE apply_default(m, value, required, default)

\* _get_env(name, required=, default=)
get_env(m, name, required, default) ==
  LET value == env[name]
  IN IF value.some /\ value.v # <<>>
     THEN Try(resolve_secret_reference(m, value.v), LAMBDA r :
            payload_fallback(r.m, name, IF r.val.some THEN r.val ELSE value,
                             required, default))
     ELSE payload_fallback(m, name, value, required, default)

--------------------------------------------------------------------------
(* Process configurations *)

SettingNames ==
  {"JIRA_HOST", "JIRA_EMAIL", "JIRA_API_TOKEN", "JIRA_PROJECT_KEY", "JIRA_PROJECT_NAME",
   "JIRA_ISSUE_TYPE", "JIRA_DEFAULT_ASSIGNEE_ACCOUNT_ID", "JIRA_DEFAULT_ASSIGNEE",
   "JIRA_ALARM_LABEL", "JIRA_COMPONENTS", "JIRA_SECRET_NAME"}

\* {{resolve:secretsmanager:<id>:SecretString:<key>::}}
Ref(id, key) == RefPrefix \o id \o Marker \o <<":">> \o key \o <<":", ":">> \o RefSuffix

RefKey == Ref(<<"cfg">>, <<"apiKey">>)
RefRaw == Ref(<<"raw">>, <<>>)
RefPadded == Ref(<<" ", "raw", " ">>, <<>>)
RefNoSuffix == SubSeq(RefKey, 1, Len(RefKey) - 2)
RefOneBrace == Tail(RefKey)
RefNoMarker == RefPrefix \o <<"cfg", ":", "apiKey", ":", ":">> \o RefSuffix
RefMissingKey == Ref(<<"cfg">>, <<"absent">>)
RefNotJson == Ref(<<"raw">>, <<"apiKey">>)
RefNotObject == Ref(<<"lst">>, <<"apiKey">>)
RefNull == Ref(<<"cfg">>, <<"nul">>)
RefUnknown == Ref(<<"gone">>, <<>>)
RefBinary == Ref(<<"bin">>, <<>>)
RefNoValue == Ref(<<"nov">>, <<>>)

EnvValues ==
  {None, Some(<<>>), Some(<<"literal">>), Some(RefKey), Some(RefRaw), Some(RefPadded),
   Some(RefNoSuffix), Some(RefOneBrace), Some(RefNoMarker), Some(RefMissingKey),
   Some(RefNotJson), Some(RefNotObject), Some(RefNull), Some(RefUnknown), Some(RefBinary),
   Some(RefNoValue)}

SecretNames == {None, Some(<<"cfg">>), Some(<<"raw">>), Some(<<"gone">>)}

BaseLiteral ==
  [n \in SettingNames |->
     CASE n = "JIRA_HOST" -> Some(<<"https://jira">>)
       [] n = "JIRA_EMAIL" -> Some(<<"bot@example">>)
       [] n = "JIRA_API_TOKEN" -> Some(<<"literal">>)
       [] n = "JIRA_PROJECT_KEY" -> Some(<<"OPS">>)
       [] OTHER -> None]

BasePayload ==
  [n \in SettingNames |-> IF n = "JIRA_SECRET_NAME" THEN Some(<<"cfg">>) ELSE None]

OverrideNames == {"JIRA_API_TOKEN", "JIRA_ISSUE_TYPE"}

Environments ==
  {[b EXCEPT ![n] = v] : b \in {BaseLiteral, BasePayload}, n \in OverrideNames, v \in EnvValues}
  \cup {[BaseLiteral EXCEPT !["JIRA_SECRET_NAME"] = s] : s \in SecretNames}

Defaults == {None, Some(<<"Task">>)}

--------------------------------------------------------------------------
(* JSON values of events *)

JNull == [t |-> "null"]
JStr(s) == [t |-> "str", s |-> s]
JNum(n) == [t |-> "num", n |-> n]
JList(l) == [t |-> "list", l |-> l]
JDict(d) == [t |-> "dict", d |-> d]

EmptyDict == [k \in {} |-> JNull]

\* Python truthiness of a JSON value
Truthy(v) ==
  CASE v.t = "null" -> FALSE
    [] v.t = "str" -> v.s # ""
    [] v.t = "num" -> v.n # 0
    [] v.t = "list" -> v.l # <<>>
    [] v.t = "dict" -> DOMAIN v.d # {}

\* dict.get(k) and dict.get(k, default)
Get(d, k) == IF k \in DOMAIN d THEN d[k] ELSE JNull
GetOr(d, k, default) == IF k \in DOMAIN d THEN d[k] ELSE default

\* The alarm bodies that the message texts below encode.
AlarmCpu == JDict([AlarmName |-> JStr("cpu"), NewStateValue |-> JStr("ALARM")])
AlarmDisk == JDict([AlarmName |-> JStr("disk"), NewStateValue |-> JStr("OK")])
AlarmBadReason ==
  JDict([AlarmName |-> JStr("net"), NewStateValue |-> JStr("ALARM"), NewStateReason |-> JNull])
AlarmNameOnly == JDict([AlarmName |-> JStr("cpu")])
AlarmRawOnly == JDict([raw_message |-> JStr("text")])
AlarmRawPlus == JDict([raw_message |-> JStr("text"), AlarmName |-> JStr("mix")])

\* json.loads on the message texts of the model: ok = FALSE is JSONDecodeError.
loads(s) ==
  CASE s = "{cpu}" -> [ok |-> TRUE, v |-> AlarmCpu]
    [] s = "{disk}" -> [ok |-> TRUE, v |-> AlarmDisk]
    [] s = "{net,reason:null}" -> [ok |-> TRUE, v |-> AlarmBadReason]
    [] s = "{raw_message}" -> [ok |-> TRUE, v |-> AlarmRawOnly]
    [] s = "{raw_message,AlarmName}" -> [ok |-> TRUE, v |-> AlarmRawPlus]
    [] s = "{}" -> [ok |-> TRUE, v |-> JDict(EmptyDict)]
    [] s = "[1]" -> [ok |-> TRUE, v |-> JList(<<JNum(1)>>)]
    [] s = "5" -> [ok |-> TRUE, v |-> JNum(5)]
    [] s = "null" -> [ok |-> TRUE, v |-> JNull]
    [] s = "\"{cpu}\"" -> [ok |-> TRUE, v |-> JStr("{cpu}")]
    [] s = "{Records:[{cpu}]}" ->
         [ok |-> TRUE,
          v |-> JDict([Records |-> JList(<<JDict([Sns |-> JDict([Message |-> JStr("{cpu}")])])>>)])]
    [] s = "[{cpu}]" -> [ok |-> TRUE, v |-> JList(<<AlarmCpu>>)]
    [] OTHER -> [ok |-> FALSE, v |-> JNull]

\* _maybe_json
maybe_json(value) ==
  IF value.t = "str" THEN (IF loads(value.s).ok THEN loads(value.s).v ELSE value) ELSE value

--------------------------------------------------------------------------
(* Event normalizer *)

Extracted(alarms) == [ok |-> TRUE, alarms |-> alarms, err |-> ""]
ExtractFails(e) == [ok |-> FALSE, alarms |-> <<>>, err |-> e]

\* Line 234: record.get("Sns", {}).get("Message") if isinstance(record, dict) else None.
\* .get on an "Sns" member that is no dict is an AttributeError.
record_message(record) ==
  IF record.t # "dict" THEN [ok |-> TRUE, v |-> JNull]
  ELSE LET sns == GetOr(record.d, "Sns", JDict(EmptyDict))
       IN IF sns.t # "dict" THEN [ok |-> FALSE, v |-> JNull]
          ELSE [ok |-> TRUE, v |-> Get(sns.d, "Message")]

\* Lines 232-243: the loop over event["Records"].
RECURSIVE fan_out(_, _)
fan_out(records, payloads) ==
  IF records = <<>> THEN Extracted(payloads)
  ELSE
    LET message == record_message(Head(records))
    IN IF ~message.ok THEN ExtractFails("AttributeError")
       ELSE IF ~Truthy(message.v) THEN fan_out(Tail(records), payloads)
       ELSE
         LET candidate == maybe_json(message.v)
         IN IF candidate.t = "dict"
            THEN fan_out(Tail(records), Append(payloads, candidate))
            ELSE fan_out(Tail(records), Append(payloads, JDict([raw_message |-> message.v])))

\* Lines 254-259: the loop over a list event.
RECURSIVE payload_list(_, _)
payload_list(items, payloads) ==
  IF items = <<>> THEN Extracted(payloads)
  ELSE LET candidate == maybe_json(Head(items))
       IN payload_list(Tail(items),
                       IF candidate.t = "dict" THEN Append(payloads, candidate) ELSE payloads)

\* Line 231
is_fan_out(d) == "Records" \in DOMAIN d /\ d["Records"].t = "list"

\* Line 246
is_state_change(d) ==
  Get(d, "detail-type") = JStr("CloudWatch Alarm State Change") /\ Get(d, "detail").t = "dict"

\* Line 250
\* A direct alarm recognised by either key alone.
is_direct_alarm_either_key(d) == "AlarmName" \in DOMAIN d \/ "NewStateValue" \in DOMAIN d

is_direct_alarm(d) == {"AlarmName", "NewStateValue"} \subseteq DOMAIN d

\* _extract_alarm_payloads
extract_alarm_payloads(ev) ==
  LET event == IF ev.t = "str" THEN maybe_json(ev) ELSE ev
  IN IF event.t = "dict" /\ is_fan_out(event.d) THEN fan_out(event.d["Records"].l, <<>>)
     ELSE IF event.t = "dict" /\ is_state_change(event.d) THEN Extracted(<<event.d["detail"]>>)
     ELSE IF event.t = "dict" /\ is_direct_alarm(event.d) THEN Extracted(<<event>>)
     ELSE IF event.t = "list" THEN payload_list(event.l, <<>>)
     ELSE ExtractFails("ValueError")

--------------------------------------------------------------------------
(* Events *)

MaxFanOut == 3

SnsRecord(message) == JDict([Sns |-> JDict([Message |-> message])])

\* The records a fan-out envelope may carry.
Records ==
  {SnsRecord(JStr("{cpu}")), SnsRecord(JStr("{disk}")), SnsRecord(JStr("not json")),
   SnsRecord(JStr("[1]")), SnsRecord(JStr("{raw_message}")), SnsRecord(JStr("")),
   SnsRecord(AlarmCpu), JDict([Sns |-> JDict(EmptyDict)]), JDict(EmptyDict),
   JDict([Sns |-> JNull]), JStr("record")}

SeqsUpTo(S, n) == UNION {[1..k -> S] : k \in 0..n}

FanOut(records) == JDict([Records |-> JList(records)])

StateChange(detail) ==
  JDict([k \in {"detail-type", "detail"} |->
           IF k = "detail" THEN detail ELSE JStr("CloudWatch Alarm State Change")])

\* Events outside the fan-out shape.
OtherEvents ==
  {StateChange(AlarmCpu), StateChange(AlarmRawOnly), StateChange(JStr("{cpu}")),
   JDict([k \in {"detail-type", "detail"} |-> IF k = "detail" THEN AlarmCpu ELSE JStr("Other")]),
   AlarmCpu, AlarmDisk, AlarmNameOnly, AlarmRawOnly, JDict(EmptyDict),
   JDict([Records |-> JStr("{cpu}")]),
   JDict([Records |-> JNull, AlarmName |-> JStr("cpu"), NewStateValue |-> JStr("OK")]),
   JList(<<>>), JList(<<JStr("{cpu}"), AlarmDisk>>), JList(<<JStr("not json"), JNum(5), AlarmCpu>>),
   JStr("{cpu}"), JStr("{Records:[{cpu}]}"), JStr("[{cpu}]"), JStr("not json"),
   JStr("\"{cpu}\""), JStr("5"), JStr("null"), JNum(5), JNull}

AllEvents == {FanOut(r) : r \in SeqsUpTo(Records, MaxFanOut)} \cup OtherEvents

--------------------------------------------------------------------------
(* The issue tracker (jira.JIRA), an external collaborator *)

\* What the JIRA constructor may do when the client is first built.
CtorOutcomes == {"ok", "JIRAError"}

\* What client.projects() may answer.
ProjectOutcomes ==
  {[r |-> "ok", list |-> <<[name |-> <<"O", "p", "s">>, key |-> <<"OPS">>]>>, text |-> ""],
   [r |-> "ok", list |-> <<>>, text |-> ""],
   [r |-> "JIRAError", list |-> <<>>, text |-> "cannot list projects"]}

\* What client.create_issue(fields) may do.
CreateOutcomes ==
  {[r |-> "ok", text |-> ""],
   [r |-> "JIRAError", text |-> "permission denied"],
   [r |-> "ConnectionError", text |-> "ConnectionError"]}

--------------------------------------------------------------------------
(* Derived settings *)

\* str.lower(), on the letters of the model
LowerChar(c) ==
  CASE c = "P" -> "p" [] c = "O" -> "o" [] c = "S" -> "s" [] OTHER -> c
Lower(s) == [i \in 1..Len(s) |-> LowerChar(s[i])]

\* str.replace(a, b) for one-character a and b
Replace(s, a, b) == [i \in 1..Len(s) |-> IF s[i] = a THEN b ELSE s[i]]

\* str.split(sep) for a one-character separator
RECURSIVE Split(_, _)
Split(s, sep) ==
  LET at == Find(s, <<sep>>)
  IN IF at = 0 THEN <<s>> ELSE <<SubSeq(s, 1, at - 1)>> \o Split(From(s, at + 1), sep)

RECURSIVE SelectNonBlank(_)
SelectNonBlank(parts) ==
  IF parts = <<>> THEN <<>>
  ELSE (IF Strip(Head(parts)) # <<>> THEN <<Head(parts)>> ELSE <<>>) \o SelectNonBlank(Tail(parts))

\* Line 199: the list comprehension of get_alarm_label
label_of(part) == Replace(Strip(part), " ", "-")
split_labels(raw_label) ==
  LET parts == SelectNonBlank(Split(raw_label, ","))
  IN [i \in 1..Len(parts) |-> label_of(parts[i])]

\* Line 208: the list comprehension of get_components
split_components(raw) ==
  LET parts == SelectNonBlank(Split(raw, ","))
  IN [i \in 1..Len(parts) |-> Strip(parts[i])]

\* get_jira_client under @lru_cache(maxsize=1)
get_jira_client(m, ctor) ==
  IF m.client.some THEN Ret(m, m.client.v)
  ELSE
    Try(get_env(m, "JIRA_HOST", TRUE, None), LAMBDA host :
    Try(get_env(host.m, "JIRA_EMAIL", TRUE, None), LAMBDA email :
    Try(get_env(email.m, "JIRA_API_TOKEN", TRUE, None), LAMBDA token :
      IF ctor # "ok" THEN RaiseText(token.m, ctor, "cannot connect")
      ELSE LET client == [server |-> host.val.v, email |-> email.val.v,
                          token |-> token.val.v]
           IN Ret([token.m EXCEPT !.client = Some(client)], client))))

\* Lines 183-186: the first project whose lower-cased name matches.
RECURSIVE find_project(_, _)
find_project(list, project_name) ==
  IF list = <<>> THEN None
  ELSE IF Lower(Head(list).name) = Lower(project_name) THEN Some(Head(list).key)
  ELSE find_project(Tail(list), project_name)

\* get_project_key under @lru_cache(maxsize=1)
get_project_key(m, ctor, projects) ==
  IF m.project_key.some THEN Ret(m, m.project_key.v)
  ELSE
    Try(get_env(m, "JIRA_PROJECT_KEY", FALSE, None), LAMBDA cached_key :
      IF ~Falsy(cached_key.val)
      THEN Ret([cached_key.m EXCEPT !.project_key = cached_key.val], cached_key.val.v)
      ELSE
        Try(get_env(cached_key.m, "JIRA_PROJECT_NAME", TRUE, None), LAMBDA project_name :
        Try(get_jira_client(project_name.m, ctor), LAMBDA client :
          IF projects.r # "ok" THEN RaiseText(client.m, projects.r, projects.text)
          ELSE
            LET key == find_project(projects.list, project_name.val.v)
            IN IF key.some THEN Ret([client.m EXCEPT !.project_key = key], key.v)
               ELSE Raise(client.m, "RuntimeError"))))

\* get_issue_type under @lru_cache(maxsize=1)
get_issue_type(m) ==
  IF m.issue_type.some THEN Ret(m, m.issue_type.v)
  ELSE
    Try(get_env(m, "JIRA_ISSUE_TYPE", FALSE, Some(<<"Task">>)), LAMBDA r :
      LET v == IF Falsy(r.val) THEN <<"Task">> ELSE r.val.v
      IN Ret([r.m EXCEPT !.issue_type = Some(v)], v))

\* get_alarm_label under @lru_cache(maxsize=1)
get_alarm_label(m) ==
  IF m.label.some THEN Ret(m, m.label.v)
  ELSE
    Try(get_env(m, "JIRA_ALARM_LABEL", FALSE, None), LAMBDA r :
      Bind(IF Falsy(r.val) THEN <<>> ELSE split_labels(r.val.v), LAMBDA v :
        Ret([r.m EXCEPT !.label = Some(v)], v)))

\* get_components under @lru_cache(maxsize=1)
get_components(m) ==
  IF m.components.some THEN Ret(m, m.components.v)
  ELSE
    Try(get_env(m, "JIRA_COMPONENTS", FALSE, None), LAMBDA r :
      Bind(IF Falsy(r.val) THEN <<>> ELSE split_components(r.val.v), LAMBDA v :
        Ret([r.m EXCEPT !.components = Some(v)], v)))

--------------------------------------------------------------------------
(* Ticket field builder *)

\* A string value given by its characters, for the texts whose length
\* matters; s says only whether it is empty.
JChars(c) == [t |-> "str", s |-> IF c = <<>> THEN "" ELSE "chars", c |-> c]

\* The characters of the string literals of the model.
Spell(s) ==
  CASE s = "" -> <<>>
    [] s = "cpu" -> <<"c", "p", "u">>
    [] s = "disk" -> <<"d", "i", "s", "k">>
    [] s = "net" -> <<"n", "e", "t">>
    [] s = "mix" -> <<"m", "i", "x">>
    [] s = "text" -> <<"t", "e", "x", "t">>
    [] s = "{cpu}" -> <<"{", "c", "p", "u", "}">>
    [] s = "OK" -> <<"O", "K">>
    [] s = "ALARM" -> <<"A", "L", "A", "R", "M">>
    [] s = "UNKNOWN" -> <<"U", "N", "K", "N", "O", "W", "N">>
    [] s = "Unknown Alarm" -> <<"U", "n", "k", "n", "o", "w", "n", " ", "A", "l", "a", "r", "m">>
    [] s = "[CloudWatch] " -> <<"[", "C", "l", "o", "u", "d", "W", "a", "t", "c", "h", "]", " ">>
    [] s = " is " -> <<" ", "i", "s", " ">>
    [] s = "None" -> <<"N", "o", "n", "e">>

Chars(v) == IF "c" \in DOMAIN v THEN v.c ELSE Spell(v.s)

\* str() of a non-negative integer
RECURSIVE Digits(_)
Digits(n) ==
  LET d == <<"0", "1", "2", "3", "4", "5", "6", "7", "8", "9">>[(n % 10) + 1]
  IN IF n < 10 THEN <<d>> ELSE Digits(n \div 10) \o <<d>>

\* What an f-string puts in place of {value}: a string as it is, None as
\* "None", a number in digits, an empty list or dict as its repr.  Lists and
\* dicts with members do not occur as AlarmName or NewStateValue here.
format_value(v) ==
  CASE v.t = "str" -> Chars(v)
    [] v.t = "null" -> Spell("None")
    [] v.t = "num" -> Digits(v.n)
    [] v.t = "list" /\ v.l = <<>> -> <<"[", "]">>
    [] v.t = "dict" /\ DOMAIN v.d = {} -> <<"{", "}">>

\* Line 273: the length of the slice summary[:255]
SummaryLimit == 255

\* s[:n]
Take(s, n) == SubSeq(s, 1, IF Len(s) < n THEN Len(s) ELSE n)

\* _build_summary
build_summary(alarm) ==
  LET alarm_name == GetOr(alarm.d, "AlarmName", JStr("Unknown Alarm"))
      state == GetOr(alarm.d, "NewStateValue", JStr("UNKNOWN"))
      summary == Spell("[CloudWatch] ") \o format_value(alarm_name) \o Spell(" is ")
                 \o format_value(state)
  IN Take(summary, SummaryLimit)

\* _build_description: "\n".join(parts) raises TypeError when the
\* NewStateReason member is present and no string (line 289 puts it in
\* parts unformatted); every other part is formatted or dumped to a string.
description_fails(alarm) == GetOr(alarm.d, "NewStateReason", JStr("N/A")).t # "str"

\* Lines 328-334: the assignee, account id first.
assignee_fields(m) ==
  Try(get_env(m, "JIRA_DEFAULT_ASSIGNEE_ACCOUNT_ID", FALSE, None), LAMBDA assignee_account_id :
    IF ~Falsy(assignee_account_id.val)
    THEN Ret(assignee_account_id.m, [form |-> "id", v |-> assignee_account_id.val.v])
    ELSE
      Try(get_env(assignee_account_id.m, "JIRA_DEFAULT_ASSIGNEE", FALSE, None), LAMBDA assignee :
        IF ~Falsy(assignee.val) THEN Ret(assignee.m, [form |-> "name", v |-> assignee.val.v])
        ELSE Ret(assignee.m, [form |-> "absent", v |-> <<>>])))

\* _build_issue_fields
build_issue_fields(m, alarm, ctor, projects) ==
  Try(get_project_key(m, ctor, projects), LAMBDA project :
    IF description_fails(alarm) THEN Raise(project.m, "TypeError")
    ELSE
      Try(get_issue_type(project.m), LAMBDA issuetype :
      Try(get_alarm_label(issuetype.m), LAMBDA labels :
      Try(get_components(labels.m), LAMBDA components :
      Try(assignee_fields(components.m), LAMBDA assignee :
        Ret(assignee.m,
            [project |-> project.val, summary |-> build_summary(alarm),
             issuetype |-> issuetype.val, labels |-> labels.val,
             components |-> components.val, assignee |-> assignee.val]))))))

--------------------------------------------------------------------------
(* Filing orchestrator: the handler *)

MaxInvocations == 2

Outcome(kind, issue_key, details, alarm) ==
  [kind |-> kind, issue_key |-> issue_key, details |-> details, alarm |-> alarm]

\* Line 376
\* A record taken as unstructured whenever it carries raw_message.
is_unstructured_any_size(alarm) == "raw_message" \in DOMAIN alarm.d

is_unstructured(alarm) == "raw_message" \in DOMAIN alarm.d /\ Cardinality(DOMAIN alarm.d) = 1

\* Every exception reported by the broad handler alone.
error_outcome_unclassified(err, text, alarm) ==
  Outcome("unexpected_exception", 0, text, Get(alarm.d, "AlarmName"))

\* Lines 389-414: the outcome of a record whose try block raised.
error_outcome(err, text, alarm) ==
  IF err = "JIRAError" THEN Outcome("jira_error", 0, text, Get(alarm.d, "AlarmName"))
  ELSE Outcome("unexpected_exception", 0, text, Get(alarm.d, "AlarmName"))

\* outcomes.insert(0, ...)
prepend_outcome(outcomes, outcome) == <<outcome>> \o outcomes

\* Lines 379-388 and 397-414: outcomes.append(...)
append_outcome(outcomes, outcome) == Append(outcomes, outcome)

\* What one turn of the loop did, kept beside the outcome it appended: was
\* _build_issue_fields called, was create_issue called, and the class and
\* text of the exception the try block raised ("" when it raised none).
Turn(built, filed, err, text) == [built |-> built, filed |-> filed, err |-> err, text |-> text]

Idle ==
  [pc |-> "idle", event |-> JNull, alarms |-> <<>>, i |-> 1, outcomes |-> <<>>, err |-> "",
   asked_client |-> FALSE, turns |-> <<>>, processed |-> 0, results |-> <<>>]

\* Lines 360-372: the handler up to its loop.  An exception of
\* _extract_alarm_payloads is logged and raised again; one of
\* get_jira_client leaves the handler as it is.
Invoke(event, ctor) ==
  /\ h.pc \in {"idle", "returned", "raised"}
  /\ ninv < MaxInvocations
  /\ ninv' = ninv + 1
  /\ \E e \in {extract_alarm_payloads(event)} :
       IF ~e.ok
       THEN /\ h' = [Idle EXCEPT !.pc = "raised", !.event = event, !.err = e.err]
            /\ mem' = mem
       ELSE \E client \in {get_jira_client(mem, ctor)} :
              /\ mem' = client.m
              /\ h' = IF client.ok
                      THEN [Idle EXCEPT !.pc = "loop", !.event = event, !.alarms = e.alarms,
                                        !.asked_client = TRUE]
                      ELSE [Idle EXCEPT !.pc = "raised", !.event = event, !.alarms = e.alarms,
                                        !.asked_client = TRUE, !.err = client.err]
  /\ UNCHANGED <<env, store, res, nres, tracker, arg, out>>

\* Lines 374-414: one turn of the loop.
ProcessRecord(projects, create) ==
  /\ h.pc = "loop"
  /\ h.i <= Len(h.alarms)
  /\ \E alarm \in {h.alarms[h.i]} :
       IF is_unstructured(alarm)
       THEN /\ h' = [h EXCEPT !.i = h.i + 1,
                       !.turns = Append(h.turns, Turn(FALSE, FALSE, "", "")),
                       !.outcomes = append_outcome(h.outcomes,
                          Outcome("unstructured_alarm_message", 0, "", Get(alarm.d, "raw_message")))]
            /\ UNCHANGED <<mem, tracker>>
       ELSE \E fields \in {build_issue_fields(mem, alarm, "ok", projects)} :
        IF ~fields.ok
        THEN /\ h' = [h EXCEPT !.i = h.i + 1,
                        !.turns = Append(h.turns, Turn(TRUE, FALSE, fields.err, fields.text)),
                        !.outcomes = append_outcome(h.outcomes,
                                                    error_outcome(fields.err, fields.text, alarm))]
             /\ mem' = fields.m
             /\ UNCHANGED tracker
        ELSE IF create.r # "ok"
        THEN /\ h' = [h EXCEPT !.i = h.i + 1,
                        !.turns = Append(h.turns, Turn(TRUE, TRUE, create.r, create.text)),
                        !.outcomes = append_outcome(h.outcomes,
                                                    error_outcome(create.r, create.text, alarm))]
             /\ mem' = fields.m
             /\ UNCHANGED tracker
        ELSE /\ h' = [h EXCEPT !.i = h.i + 1,
                        !.turns = Append(h.turns, Turn(TRUE, TRUE, "", "")),
                        !.outcomes = append_outcome(h.outcomes,
                                                    Outcome("created", Len(tracker) + 1, "", JNull))]
             /\ mem' = fields.m
             /\ tracker' = Append(tracker, fields.val)
  /\ UNCHANGED <<env, store, res, nres, ninv, arg, out>>

\* Lines 416-420: the loop is over and the handler returns.
Return ==
  /\ h.pc = "loop"
  /\ h.i > Len(h.alarms)
  /\ h' = [h EXCEPT !.pc = "returned", !.processed = Len(h.outcomes), !.results = h.outcomes]
  /\ UNCHANGED <<env, store, mem, res, nres, tracker, ninv, arg, out>>

--------------------------------------------------------------------------
(* The process *)

ColdCaches ==
  [fetch |-> <<>>, ref |-> <<>>, payload |-> None, calls |-> <<>>, client |-> None,
   project_key |-> None, issue_type |-> None, label |-> None, components |-> None]

\* The last direct resolution: its arguments, its result, the caches and the
\* store it started from, and whether it repeats the arguments of the direct
\* resolution before it when that one returned (then prev is what it returned).
NoRes ==
  [name |-> "", required |-> FALSE, default |-> None, ok |-> TRUE, val |-> None, err |-> "",
   before |-> ColdCaches, at |-> [up |-> TRUE, ver |-> 0], again |-> FALSE, prev |-> None]

\* A direct resolution of one setting.
Resolve(name, required, default) ==
  /\ nres < MaxResolves
  /\ h.pc \in {"idle", "returned", "raised"}
  /\ \E r \in {get_env(mem, name, required, default)} :
        /\ mem' = r.m
        /\ res' = [name |-> name, required |-> required, default |-> default, ok |-> r.ok,
                   val |-> r.val, err |-> r.err, before |-> mem, at |-> store,
                   again |-> (res.ok /\ res.name = name /\ res.required = required
                              /\ res.default = default),
                   prev |-> res.val]
  /\ nres' = nres + 1
  /\ UNCHANGED <<env, store, h, tracker, ninv, arg, out>>

\* The secret store goes down or comes back.
StoreFlip ==
  /\ store' = [store EXCEPT !.up = ~store.up]
  /\ UNCHANGED <<env, mem, res, nres, h, tracker, ninv, arg, out>>

\* A secret rotation: the store's contents change.
StoreRotate ==
  /\ store.ver = 0
  /\ store' = [store EXCEPT !.ver = 1]
  /\ UNCHANGED <<env, mem, res, nres, h, tracker, ninv, arg, out>>

Start(environments) ==
  /\ env \in environments
  /\ store = [up |-> TRUE, ver |-> 0]
  /\ mem = ColdCaches
  /\ res = NoRes
  /\ nres = 0
  /\ h = Idle
  /\ tracker = <<>>
  /\ ninv = 0
  /\ arg = JNull
  /\ out = JNull

\* The resolver on its own, over many environments.
ResolveNames == {"JIRA_HOST", "JIRA_API_TOKEN", "JIRA_ISSUE_TYPE", "JIRA_COMPONENTS"}

InitResolve == Start(Environments)

NextResolve ==
  \/ \E name \in ResolveNames, required \in BOOLEAN, default \in Defaults :
       Resolve(name, required, default)
  \/ StoreFlip
  \/ StoreRotate

SpecResolve == InitResolve /\ [][NextResolve]_vars

\* The event normalizer on its own, over many events.
InitExtract ==
  /\ arg \in AllEvents
  /\ out = JNull
  /\ env = BaseLiteral
  /\ store = [up |-> TRUE, ver |-> 0]
  /\ mem = ColdCaches
  /\ res = NoRes
  /\ nres = 0
  /\ h = Idle
  /\ tracker = <<>>
  /\ ninv = 0

Extract ==
  /\ out = JNull
  /\ out' = extract_alarm_payloads(arg)
  /\ UNCHANGED <<env, store, mem, res, nres, h, tracker, ninv, arg>>

SpecExtract == InitExtract /\ [][Extract]_vars

\* The ticket fields on their own, over many values of JIRA_ALARM_LABEL.
MaxLabelLen == 4

LabelChars == {"P", "o", " ", ","}

InitLabel ==
  /\ arg \in SeqsUpTo(LabelChars, MaxLabelLen)
  /\ out = JNull
  /\ env = [BaseLiteral EXCEPT !["JIRA_ALARM_LABEL"] = Some(arg)]
  /\ store = [up |-> TRUE, ver |-> 0]
  /\ mem = ColdCaches
  /\ res = NoRes
  /\ nres = 0
  /\ h = Idle
  /\ tracker = <<>>
  /\ ninv = 0

BuildFields ==
  /\ out = JNull
  /\ \E fields \in {build_issue_fields(mem, AlarmCpu, "ok",
                                         CHOOSE p \in ProjectOutcomes : p.list # <<>>)} :
        /\ out' = fields
        /\ mem' = fields.m
  /\ UNCHANGED <<env, store, res, nres, h, tracker, ninv, arg>>

SpecLabel == InitLabel /\ [][BuildFields]_vars

\* The summary line on its own, over alarm records whose name and state are
\* missing, null, empty, short or long.
MaxNameLen == 300

Rep(c, n) == [i \in 1..n |-> c]

NameLens == {1, 7} \cup 230..245 \cup {MaxNameLen}

SummaryNames ==
  {JNull, JStr(""), JChars(<<>>), JStr("cpu"), JNum(0), JNum(5), JNum(42), JList(<<>>)}
  \cup {JChars(Rep("a", n)) : n \in NameLens}

SummaryStates == {JNull, JStr(""), JStr("ALARM"), JStr("OK"), JChars(Rep("z", MaxNameLen))}

SummaryAlarms ==
  {JDict([AlarmName |-> n, NewStateValue |-> s]) : n \in SummaryNames, s \in SummaryStates}
  \cup {JDict([AlarmName |-> n]) : n \in SummaryNames}
  \cup {JDict([NewStateValue |-> s]) : s \in SummaryStates}
  \cup {JDict(EmptyDict), AlarmRawPlus}

InitSummary ==
  /\ arg \in SummaryAlarms
  /\ out = JNull
  /\ env = BaseLiteral
  /\ store = [up |-> TRUE, ver |-> 0]
  /\ mem = ColdCaches
  /\ res = NoRes
  /\ nres = 0
  /\ h = Idle
  /\ tracker = <<>>
  /\ ninv = 0

Summarize ==
  /\ out = JNull
  /\ out' = [summary |-> build_summary(arg)]
  /\ UNCHANGED <<env, store, mem, res, nres, h, tracker, ninv, arg>>

SpecSummary == InitSummary /\ [][Summarize]_vars

\* The handler, invoked again and again in one process.
MaxRecords == 2

HandlerRecords ==
  {SnsRecord(JStr("{cpu}")), SnsRecord(JStr("not json")), SnsRecord(JStr("{net,reason:null}"))}

HandlerEvents ==
  {FanOut(r) : r \in SeqsUpTo(HandlerRecords, MaxRecords)}
  \cup {FanOut(<<SnsRecord(JStr("{cpu}")), SnsRecord(JStr("{disk}")), SnsRecord(JStr("{cpu}"))>>),
        FanOut(<<SnsRecord(JStr("{disk}")), SnsRecord(JStr("not json")),
                 SnsRecord(JStr("{net,reason:null}"))>>),
        FanOut(<<SnsRecord(JStr("not json")), JDict(EmptyDict),
                 SnsRecord(JStr("{raw_message,AlarmName}"))>>),
        FanOut(<<JDict([Sns |-> JNull]), SnsRecord(JStr("{cpu}"))>>),
        StateChange(AlarmDisk), StateChange(JStr("{cpu}")), AlarmCpu, AlarmRawOnly, AlarmNameOnly,
        JDict([Records |-> JStr("{cpu}")]), JList(<<JStr("{cpu}"), JNum(5), AlarmRawPlus>>),
        JStr("{Records:[{cpu}]}"), JStr("not json"), JStr("\"{cpu}\""), JNull}

HandlerEnvironments ==
  {BaseLiteral,
   [BaseLiteral EXCEPT !["JIRA_HOST"] = None],
   [BaseLiteral EXCEPT !["JIRA_API_TOKEN"] = Some(<<>>)],
   [BaseLiteral EXCEPT !["JIRA_PROJECT_KEY"] = None],
   [BaseLiteral EXCEPT !["JIRA_PROJECT_KEY"] = None, !["JIRA_PROJECT_NAME"] = Some(<<"o", "p", "s">>)],
   [BaseLiteral EXCEPT !["JIRA_API_TOKEN"] = Some(RefRaw), !["JIRA_SECRET_NAME"] = Some(<<"raw">>),
                       !["JIRA_ALARM_LABEL"] = Some(<<"P", " ", "O", ",", "S">>),
                       !["JIRA_DEFAULT_ASSIGNEE"] = Some(<<"oncall">>)],
   [BasePayload EXCEPT !["JIRA_API_TOKEN"] = Some(RefKey)],
   [BasePayload EXCEPT !["JIRA_SECRET_NAME"] = Some(<<"gone">>)]}

Init == Start(HandlerEnvironments)

Next ==
  \/ \E event \in HandlerEvents, ctor \in CtorOutcomes : Invoke(event, ctor)
  \/ \E projects \in ProjectOutcomes, create \in CreateOutcomes : ProcessRecord(projects, create)
  \/ Return

Spec == Init /\ [][Next]_vars

\* The caches under every use of them: direct resolutions between handler
\* invocations, in environments that refer to the secret store.
CacheEnvironments ==
  {[BaseLiteral EXCEPT !["JIRA_API_TOKEN"] = Some(RefRaw), !["JIRA_SECRET_NAME"] = Some(<<"raw">>)],
   [BasePayload EXCEPT !["JIRA_API_TOKEN"] = Some(RefKey)],
   [BaseLiteral EXCEPT !["JIRA_API_TOKEN"] = Some(RefUnknown), !["JIRA_ISSUE_TYPE"] = Some(RefBinary)]}

CacheEvents == {FanOut(<<SnsRecord(JStr("{cpu}"))>>), JStr("not json")}

InitCache == Start(CacheEnvironments)

CacheNames == {"JIRA_API_TOKEN", "JIRA_ISSUE_TYPE", "JIRA_HOST"}

NextCache ==
  \/ \E event \in CacheEvents, ctor \in CtorOutcomes : Invoke(event, ctor)
  \/ \E projects \in ProjectOutcomes, create \in CreateOutcomes : ProcessRecord(projects, create)
  \/ Return
  \/ \E name \in CacheNames, required \in BOOLEAN : Resolve(name, required, None)
  \/ StoreFlip
  \/ StoreRotate

SpecCache == InitCache /\ [][NextCache]_vars

--------------------------------------------------------------------------
(* Properties of the handler, under Spec *)

\* An alarm record of the degenerate shape: exactly one key, raw_message.
Degenerate(a) == DOMAIN a.d = {"raw_message"}

\* o is an outcome the handler may give for alarm record a.
OutcomeFor(o, a) ==
  IF Degenerate(a) THEN o = Outcome("unstructured_alarm_message", 0, "", a.d["raw_message"])
  ELSE \/ /\ o.kind = "created"
          /\ o.issue_key \in 1..Len(tracker)
          /\ tracker[o.issue_key].summary = build_summary(a)
       \/ /\ o.kind \in {"jira_error", "unexpected_exception"}
          /\ o.alarm = Get(a.d, "AlarmName")

\* C1: when extraction accepts the event and the tracker client is obtained,
\* the handler returns, and what it returns holds exactly one outcome per
\* extracted alarm record, in the order of the records: processed is the
\* length of results and the number of records, and results[k] is an outcome
\* of the k-th record.  The handler raises only when extraction fails or the
\* client cannot be obtained.
C1_OneOutcomePerRecord ==
  /\ h.pc \in {"loop", "returned"} =>
       /\ Len(h.outcomes) = h.i - 1
       /\ Len(h.outcomes) <= Len(h.alarms)
       /\ \A k \in 1..Len(h.outcomes) : OutcomeFor(h.outcomes[k], h.alarms[k])
  /\ h.pc = "returned" =>
       /\ h.processed = Len(h.results)
       /\ Len(h.results) = Len(h.alarms)
       /\ \A k \in 1..Len(h.results) : OutcomeFor(h.results[k], h.alarms[k])
  /\ h.pc = "raised" => ~extract_alarm_payloads(h.event).ok \/ ~mem.client.some

\* A batch of three records has returned a success, a skipped degenerate
\* record and a failure, and another one two issues of different alarms.
C1_Witness ==
  /\ h.pc = "returned"
  /\ h.processed = 3
  /\ h.results[1].kind = "created"
  /\ h.results[2].kind = "unstructured_alarm_message"
  /\ h.results[3].kind = "unexpected_exception"
  /\ h.results[3].alarm = JStr("net")

\* C2: a record whose create_issue call raises JIRAError gets a jira_error
\* outcome with the tracker's text and the alarm name; a record whose try
\* block raises anything else gets unexpected_exception; the loop goes on
\* to the records after it, and the handler returns an outcome for each.
C2_FailureIsolation ==
  /\ h.pc \in {"loop", "returned"} =>
       /\ Len(h.turns) = Len(h.outcomes)
       /\ \A k \in 1..Len(h.turns) :
            /\ (h.turns[k].filed /\ h.turns[k].err = "JIRAError") =>
                 /\ h.outcomes[k].kind = "jira_error"
                 /\ h.outcomes[k].details = h.turns[k].text
                 /\ h.outcomes[k].alarm = Get(h.alarms[k].d, "AlarmName")
            /\ h.turns[k].err \notin {"", "JIRAError"} =>
                 h.outcomes[k].kind = "unexpected_exception"
  /\ h.pc = "returned" => Len(h.results) = Len(h.alarms)
  /\ h.pc = "raised" => h.turns = <<>>

\* One tracker failure among three records: created, jira_error, created.
C2_Witness ==
  /\ h.pc = "returned"
  /\ Len(h.results) = 3
  /\ h.results[1].kind = "created"
  /\ h.results[2].kind = "jira_error"
  /\ h.results[2].details = "permission denied"
  /\ h.results[2].alarm = JStr("disk")
  /\ h.results[3].kind = "created"

\* A required setting that nothing supplies: neither the environment nor the
\* whole-payload secret.
PayloadSupplies(name) ==
  /\ env["JIRA_SECRET_NAME"] = Some(<<"cfg">>)
  /\ <<name>> \in DOMAIN CfgObject(0)
  /\ ~Falsy(CfgObject(0)[<<name>>])
MissingSetting(name) == Falsy(env[name]) /\ ~PayloadSupplies(name)
RequiredSettingMissing ==
  \/ MissingSetting("JIRA_HOST")
  \/ MissingSetting("JIRA_EMAIL")
  \/ MissingSetting("JIRA_API_TOKEN")
  \/ MissingSetting("JIRA_PROJECT_KEY") /\ MissingSetting("JIRA_PROJECT_NAME")

\* C3: with a required setting missing (the host, the email, the token, or
\* the project when neither its key nor its name is set), an invocation that
\* has an alarm record to file raises before any create_issue call: it
\* returns no result, so the failure is never an outcome of a returned batch.
C3_MissingSettingIsFatal ==
  (RequiredSettingMissing /\ \E k \in 1..Len(h.alarms) : ~Degenerate(h.alarms[k])) =>
     /\ h.pc # "returned"
     /\ \A k \in 1..Len(h.turns) : ~h.turns[k].filed

\* C4: a record that has exactly the key raw_message gets the outcome
\* unstructured_alarm_message with the raw message, and neither the field
\* builder nor create_issue is called for it; a record that has raw_message
\* among other keys is built and filed like any other.
C4_DegenerateRecordSkipped ==
  h.pc \in {"loop", "returned"} =>
    \A k \in 1..Len(h.outcomes) :
      /\ Degenerate(h.alarms[k]) =>
           /\ h.outcomes[k] = Outcome("unstructured_alarm_message", 0, "", h.alarms[k].d["raw_message"])
           /\ ~h.turns[k].built
           /\ ~h.turns[k].filed
      /\ ("raw_message" \in DOMAIN h.alarms[k].d /\ ~Degenerate(h.alarms[k])) =>
           /\ h.outcomes[k].kind # "unstructured_alarm_message"
           /\ h.turns[k].built
           /\ h.turns[k].filed \/ h.turns[k].err # ""

\* A batch with a degenerate record and a record that has raw_message and
\* AlarmName, which was filed.
C4_Witness ==
  /\ h.pc = "returned"
  /\ \E k \in 1..Len(h.alarms) : Degenerate(h.alarms[k]) /\ ~h.turns[k].built
  /\ \E k \in 1..Len(h.alarms) :
       /\ h.alarms[k] = AlarmRawPlus
       /\ h.turns[k].filed
       /\ h.results[k].kind = "created"

\* The shapes the normalizer recognizes, after a top-level string is decoded
\* once: a mapping with a Records sequence, the state-change envelope, a
\* mapping with both AlarmName and NewStateValue, a list.
DecodedOnce(ev) == IF ev.t = "str" /\ loads(ev.s).ok THEN loads(ev.s).v ELSE ev
RecognizedShape(ev) ==
  LET e == DecodedOnce(ev)
  IN \/ e.t = "list"
     \/ /\ e.t = "dict"
        /\ \/ "Records" \in DOMAIN e.d /\ e.d["Records"].t = "list"
           \/ /\ "detail-type" \in DOMAIN e.d
              /\ e.d["detail-type"] = JStr("CloudWatch Alarm State Change")
              /\ "detail" \in DOMAIN e.d
              /\ e.d["detail"].t = "dict"
           \/ "AlarmName" \in DOMAIN e.d /\ "NewStateValue" \in DOMAIN e.d

\* C5: an event of no recognized shape makes the invocation end with the
\* unsupported-shape error (ValueError) raised out of the handler, before
\* the tracker client is asked for, with no turn of the loop, no
\* create_issue call and no result.
C5_UnsupportedShapeIsFatal ==
  (h.pc # "idle" /\ ~RecognizedShape(h.event)) =>
     /\ h.pc = "raised"
     /\ h.err = "ValueError"
     /\ ~h.asked_client
     /\ h.alarms = <<>>
     /\ h.turns = <<>>
     /\ h.results = <<>>

\* A mapping with AlarmName alone was refused in a process whose client was
\* already cached by an earlier invocation.
C5_Witness ==
  /\ h.pc = "raised"
  /\ h.event = AlarmNameOnly
  /\ h.err = "ValueError"
  /\ mem.client.some
  /\ ninv = 2

--------------------------------------------------------------------------
(* Properties of the event normalizer, under SpecExtract *)

\* A record carries a message: it is a mapping whose Sns member is a mapping
\* with a non-empty Message.
CarriesMessage(record) ==
  /\ record.t = "dict"
  /\ "Sns" \in DOMAIN record.d
  /\ record.d["Sns"].t = "dict"
  /\ "Message" \in DOMAIN record.d["Sns"].d
  /\ Truthy(record.d["Sns"].d["Message"])

\* The alarm record of a message: the mapping it is or decodes to, else the
\* message itself under raw_message.
AlarmOfMessage(message) ==
  IF message.t = "dict" THEN message
  ELSE IF message.t = "str" /\ loads(message.s).ok /\ loads(message.s).v.t = "dict"
    THEN loads(message.s).v
  ELSE JDict([raw_message |-> message])

RECURSIVE AlarmsOfRecords(_)
AlarmsOfRecords(records) ==
  IF records = <<>> THEN <<>>
  ELSE (IF CarriesMessage(Head(records))
        THEN <<AlarmOfMessage(Head(records).d["Sns"].d["Message"])>> ELSE <<>>)
       \o AlarmsOfRecords(Tail(records))

IsFanOutEvent(ev) == ev.t = "dict" /\ "Records" \in DOMAIN ev.d /\ ev.d["Records"].t = "list"

\* C6: for a fan-out envelope, extraction succeeds and returns, in the order
\* of the records, one alarm record per record that carries a message (the
\* decoded mapping, else the message under raw_message); the records that
\* carry none are dropped and do not fail the batch.
C6_FanOutExtraction ==
  (out # JNull /\ IsFanOutEvent(arg)) =>
     /\ out.ok
     /\ out.alarms = AlarmsOfRecords(arg.d["Records"].l)
     /\ Len(out.alarms) = Cardinality({k \in 1..Len(arg.d["Records"].l) :
                                         CarriesMessage(arg.d["Records"].l[k])})

--------------------------------------------------------------------------
(* Properties of the ticket fields, under SpecLabel *)

\* The labels the configured value stands for: its comma-separated tokens,
\* trimmed, the empty ones left out, lower-cased, blanks turned to hyphens.
LabelsOf(raw) ==
  LET parts == SelectNonBlank(Split(raw, ","))
  IN [i \in 1..Len(parts) |-> Replace(Lower(Strip(parts[i])), " ", "-")]

\* C7: the labels of the ticket fields are the comma-separated tokens of
\* JIRA_ALARM_LABEL, lower-cased and with blanks replaced by hyphens, so
\* that no label holds an upper-case letter or a blank.
C7_LabelsLowerKebab ==
  out # JNull =>
     /\ out.ok
     /\ out.val.labels = LabelsOf(arg)
     /\ \A i \in 1..Len(out.val.labels) : \A j \in 1..Len(out.val.labels[i]) :
          /\ out.val.labels[i][j] # " "
          /\ LowerChar(out.val.labels[i][j]) = out.val.labels[i][j]

--------------------------------------------------------------------------
(* Properties of the config resolver, under SpecResolve *)

\* A value that is meant as a secret reference (it names the resolve
\* directive) but lacks the opening delimiter, the closing delimiter or the
\* SecretString marker.
MeantAsReference(v) == Find(v, <<"resolve", ":", "secretsmanager">>) # 0
Malformed(v) ==
  /\ MeantAsReference(v)
  /\ ~(StartsWith(v, RefPrefix) /\ EndsWith(v, RefSuffix) /\ Find(v, Marker) # 0)

\* C8: resolving a setting whose environment value is a malformed secret
\* reference fails: the value is not returned, and the secret store is not
\* called.
C8_MalformedReferenceFails ==
  (res.name # "" /\ env[res.name].some /\ Malformed(env[res.name].v)) =>
     /\ ~res.ok
     /\ mem.calls = res.before.calls

\* The value the fallback chain of C9 gives, from the dereferenced
\* environment value d and the whole-payload entry p of the setting.
ChainValue(raw, d, hasEntry, p, default) ==
  LET v1 == IF ~Falsy(raw) THEN (IF d.some THEN d ELSE raw) ELSE raw
      v2 == IF Falsy(v1) /\ hasEntry THEN p ELSE v1
  IN IF Falsy(v2) /\ default.some THEN default ELSE v2

\* C9: get_env follows the chain: the non-empty environment value,
\* dereferenced, wins; an empty one (absent or "") gives way to the
\* whole-payload entry of the name; a value still empty gives way to the
\* default; and a required setting whose final value is empty fails with
\* the configuration error.
C9_FallbackChain ==
  (res.name # "" /\ store = res.at) =>
     LET raw == env[res.name]
         d == IF ~Falsy(raw) THEN resolve_secret_reference(res.before, raw.v)
              ELSE Ret(res.before, raw)
         v1 == IF d.ok /\ d.val.some THEN d.val ELSE raw
         p == IF d.ok /\ Falsy(v1) THEN get_secret_payload(d.m) ELSE Ret(d.m, <<>>)
         hasEntry == p.ok /\ <<res.name>> \in DOMAIN p.val
         final == ChainValue(raw, d.val, hasEntry, IF hasEntry THEN p.val[<<res.name>>] ELSE None,
                             res.default)
     IN (d.ok /\ p.ok) =>
          IF res.required /\ Falsy(final)
          THEN ~res.ok /\ res.err = "EnvironmentError"
          ELSE res.ok /\ res.val = final

--------------------------------------------------------------------------
(* Properties of the caches, under SpecCache *)

CallsOf(m, id) == IF id \in DOMAIN m.calls THEN m.calls[id] ELSE 0

\* C10 as stated: get_secret_value is called at most once per secret id,
\* whether its calls succeed or fail.
C10_AtMostOneCallPerSecret ==
  \A id \in DOMAIN mem.calls : mem.calls[id] <= 1

\* C10 as amended: once a secret id has been fetched, the secret store is
\* never called for it again, so every id is fetched at most once with
\* success (a failed call is not cached, and the id is asked for again);
\* and a direct resolution that repeats the arguments of the one before it,
\* which returned, returns the same value without a call to the store.
C10_NoCallAfterFetch ==
  [][/\ \A id \in DOMAIN mem.fetch :
          /\ id \in DOMAIN mem'.fetch
          /\ mem'.fetch[id] = mem.fetch[id]
          /\ CallsOf(mem', id) = CallsOf(mem, id)
     /\ (nres' = nres + 1 /\ res'.again) =>
          /\ res'.ok
          /\ res'.val = res.val
          /\ mem'.calls = mem.calls]_vars

\* A secret was fetched once, rotated in the store, and a repeated direct
\* resolution still returned the value fetched first, with one call made.
C10_Witness ==
  /\ res.again
  /\ res.name = "JIRA_API_TOKEN"
  /\ res.val = Some(RawText(0))
  /\ store.ver = 1
  /\ store.up
  /\ \E id \in DOMAIN mem.fetch : CallsOf(mem, id) = 1
  /\ ninv > 0

--------------------------------------------------------------------------
(* Properties of the summary line, under SpecSummary *)

\* "{value or default}": the default in place of a value that is missing or
\* empty (falsy), the value formatted otherwise.
OrDefault(d, k, default) ==
  IF k \in DOMAIN d /\ Truthy(d[k]) THEN format_value(d[k]) ELSE Spell(default)

SummaryLine(alarm) ==
  Spell("[CloudWatch] ") \o OrDefault(alarm.d, "AlarmName", "Unknown Alarm") \o Spell(" is ")
  \o OrDefault(alarm.d, "NewStateValue", "UNKNOWN")

\* C11: the summary of every alarm record is the first 255 characters of
\* "[CloudWatch] {AlarmName or 'Unknown Alarm'} is {NewStateValue or 'UNKNOWN'}":
\* never longer than 255, the "[CloudWatch] " prefix kept, exactly 255 for a
\* name of 300 characters, and a missing or empty AlarmName or NewStateValue
\* rendered as 'Unknown Alarm' or 'UNKNOWN'.
C11_SummaryLine ==
  out # JNull =>
    /\ out.summary = Take(SummaryLine(arg), SummaryLimit)
    /\ Len(out.summary) <= SummaryLimit
    /\ StartsWith(out.summary, Spell("[CloudWatch] "))
    /\ ("AlarmName" \in DOMAIN arg.d /\ arg.d["AlarmName"] = JChars(Rep("a", MaxNameLen))
          => Len(out.summary) = SummaryLimit)

====
